---- MODULE Spec2Model ----
(***************************************************************************)
(* A model of moto's in-memory AppMesh backend (moto/appmesh/models.py),   *)
(* its request handlers (moto/appmesh/responses.py) and the request field  *)
(* translation of the Transfer handlers (moto/transfer/responses.py).      *)
(*                                                                         *)
(* Python values are modelled as follows.  An optional value is a sequence *)
(* of length at most one: None is <<>> and a present value v is <<v>>.  A  *)
(* dict with a known key set is a record whose fields are optional values, *)
(* so that d.get(k) is the field itself and a key that is missing reads as *)
(* None; the dict is empty (falsy) when every field is None.  A list is a  *)
(* sequence.  The backend's dict of meshes, which Python keeps in          *)
(* insertion order, is the sequence of its values in that order.           *)
(*                                                                         *)
(* An operation of the backend is one action: outcome and ret are what the *)
(* backend method raised or returned.  The handlers' JSON encoding of the  *)
(* result is not part of the model.                                        *)
(***************************************************************************)
EXTENDS Integers, Sequences, FiniteSets, TLC

VARIABLES
    meshes,     \* AppMeshBackend.meshes: the stored Mesh records, in dict order
    clock,      \* the reading datetime.now() returns
    uuids,      \* how many values uuid4() has returned
    call,       \* the operation called last and its arguments
    outcome,    \* how that call ended: "ok" or the exception raised
    ret,        \* what that call returned (None when it raised)
    kwargs,     \* the keyword arguments a Transfer handler passed to its backend
    walk        \* a client following next_token through list_meshes

vars == <<meshes, clock, uuids, call, outcome, ret, kwargs, walk>>

\* ------------------------------------------------------------------ bounds
MaxClock == 1
MaxCreates == 2
MaxVersion == 2
MaxListCreates == 4
MaxLimit == 3

\* ----------------------------------------------------------- Python values
None == <<>>
Some(v) == <<v>>
IsNone(o) == o = None
Val(o) == o[1]

\* bool(d) of a dict d: False exactly when d has no key.
IsEmptyDict(d) == \A k \in DOMAIN d : IsNone(d[k])

\* bool(o) of an Optional[dict]: None and {} are both falsy.
Truthy(o) == ~IsNone(o) /\ ~IsEmptyDict(Val(o))

\* ------------------------------------------------------------- input sets
Names == {"m1", "m2"}
ListNames == {"m1", "m2", "m3", "m4"}
EgressFilters == {"DROP_ALL"}
IpPreferences == {"IPv4_ONLY"}

EmptyServiceDiscovery == [ipPreference |-> None]
ServiceDiscoveryDicts ==
    {EmptyServiceDiscovery} \cup {[ipPreference |-> Some(p)] : p \in IpPreferences}

EmptySpec == [egressFilter |-> None, serviceDiscovery |-> None]
SpecDicts ==
    [egressFilter : {None} \cup {Some(e) : e \in EgressFilters},
     serviceDiscovery : {None} \cup {Some(d) : d \in ServiceDiscoveryDicts}]

\* The "spec" and "tags" members of a request body: absent, or a value.
SpecArgs == {None} \cup {Some(s) : s \in SpecDicts}
SomeTags == Some(<<[key |-> "k", value |-> "v"]>>)
TagArgs == {None, Some(<<>>), SomeTags}

\* The specs the lifecycle specification draws from: absent, empty, either
\* field alone, and both.
LifecycleSpecArgs ==
    {o \in SpecArgs : IsNone(o) \/ IsNone(Val(o).serviceDiscovery)
                                \/ Val(o).serviceDiscovery # Some(EmptyServiceDiscovery)}

\* ------------------------------------------------------------- Mesh store
\* mesh_name in self.meshes
Has(ms, n) == \E i \in 1..Len(ms) : ms[i].mesh_name = n

IndexOf(ms, n) == CHOOSE i \in 1..Len(ms) : ms[i].mesh_name = n

\* self.meshes[mesh_name]
Lookup(ms, n) == ms[IndexOf(ms, n)]

\* self.meshes[mesh_name] = mesh: a key already present keeps its place in
\* the dict's order, a new key goes last.
SetItem(ms, n, mesh) ==
    IF Has(ms, n) THEN [ms EXCEPT ![IndexOf(ms, n)] = mesh] ELSE Append(ms, mesh)

\* d.get(k): the field, None when the key is missing.
DictGet(d, k) == d[k]

\* (o or {}) for an Optional[dict] o whose empty dict is `empty`.
OrEmpty(o, empty) == IF Truthy(o) THEN Val(o) ELSE empty

Raise(ms, error) == [outcome |-> error, meshes |-> ms, ret |-> None]
Return(ms, value) == [outcome |-> "ok", meshes |-> ms, ret |-> Some(value)]

\* NewMesh with the version counter started at 0.
NewMesh_VersionZero(n, spec, tags, now, uid) ==
    [mesh_name |-> n,
     spec |-> [egress_filter |-> DictGet(spec, "egressFilter"),
               service_discovery |->
                   Some([ip_preference |->
                            DictGet(OrEmpty(DictGet(spec, "serviceDiscovery"),
                                            EmptyServiceDiscovery), "ipPreference")])],
     status |-> "ACTIVE",
     metadata |-> [arn |-> <<"arn:aws:appmesh", n>>,
                   created_at |-> now,
                   last_updated_at |-> now,
                   mesh_owner |-> "user_id",
                   uid |-> uid,
                   version |-> 0],
     tags |-> tags]

\* The Mesh create_mesh builds from its arguments.
NewMesh(n, spec, tags, now, uid) ==
    LET service_discovery ==
            OrEmpty(DictGet(spec, "serviceDiscovery"), EmptyServiceDiscovery)
    IN  [mesh_name |-> n,
         spec |-> [egress_filter |-> DictGet(spec, "egressFilter"),
                   service_discovery |->
                       Some([ip_preference |-> DictGet(service_discovery, "ipPreference")])],
         status |-> "ACTIVE",
         metadata |-> [arn |-> <<"arn:aws:appmesh", n>>,
                       created_at |-> now,
                       last_updated_at |-> now,
                       mesh_owner |-> "user_id",
                       uid |-> uid,
                       version |-> 1],
         tags |-> tags]

\* create_mesh with the dict rebuilt around the new mesh
\* (self.meshes = {mesh_name: mesh}).
create_mesh_ReplacesStore(ms, n, spec, tags, now, uid) ==
    IF IsNone(spec)
    THEN Raise(ms, "AttributeError")
    ELSE Return(<<NewMesh(n, Val(spec), tags, now, uid)>>,
                NewMesh(n, Val(spec), tags, now, uid))

\* spec.get(...) on a spec that is None raises AttributeError before the
\* store is touched; otherwise the new Mesh is stored under its name,
\* whether or not the name is already a key.
create_mesh(ms, n, spec, tags, now, uid) ==
    IF IsNone(spec)
    THEN Raise(ms, "AttributeError")
    ELSE LET mesh == NewMesh(n, Val(spec), tags, now, uid)
         IN  Return(SetItem(ms, n, mesh), mesh)

\* UpdatedMesh without the version increment.
UpdatedMesh_NoVersionBump(mesh, spec, now) ==
    [mesh EXCEPT
        !.spec.egress_filter = DictGet(spec, "egressFilter"),
        !.spec.service_discovery =
            Some([ip_preference |->
                     DictGet(OrEmpty(DictGet(spec, "serviceDiscovery"),
                                     EmptyServiceDiscovery), "ipPreference")]),
        !.metadata.last_updated_at = now]

\* UpdatedMesh as a merge: a field the request lacks keeps its stored value.
UpdatedMesh_Merge(mesh, spec, now) ==
    [mesh EXCEPT
        !.spec.egress_filter =
            IF IsNone(DictGet(spec, "egressFilter")) THEN @
            ELSE DictGet(spec, "egressFilter"),
        !.spec.service_discovery =
            IF IsNone(DictGet(spec, "serviceDiscovery")) THEN @
            ELSE Some([ip_preference |->
                          DictGet(Val(DictGet(spec, "serviceDiscovery")), "ipPreference")]),
        !.metadata.last_updated_at = now,
        !.metadata.version = @ + 1]

\* The body of update_mesh's "if spec:".
UpdatedMesh(mesh, spec, now) ==
    [mesh EXCEPT
        !.spec.egress_filter = DictGet(spec, "egressFilter"),
        !.spec.service_discovery =
            Some([ip_preference |->
                     DictGet(OrEmpty(DictGet(spec, "serviceDiscovery"),
                                     EmptyServiceDiscovery), "ipPreference")]),
        !.metadata.last_updated_at = now,
        !.metadata.version = @ + 1]

update_mesh(ms, n, spec, now) ==
    IF ~Has(ms, n)
    THEN Raise(ms, "MeshNotFoundError")
    ELSE IF Truthy(spec)
         THEN LET mesh == UpdatedMesh(Lookup(ms, n), Val(spec), now)
              IN  Return(SetItem(ms, n, mesh), mesh)
         ELSE Return(ms, Lookup(ms, n))

describe_mesh(ms, n) ==
    IF ~Has(ms, n)
    THEN Raise(ms, "MeshNotFoundError")
    ELSE Return(ms, Lookup(ms, n))

\* status["status"] = "DELETED": status is the str create_mesh stored, and
\* item assignment on a str raises TypeError, so the statements after it
\* (the copy and the del) are not reached.  Were status a dict, the
\* assignment would go through and Mesh.copy(), which the dataclass does
\* not define, would raise AttributeError.
delete_mesh(ms, n) ==
    IF ~Has(ms, n)
    THEN Raise(ms, "MeshNotFoundError")
    ELSE IF Lookup(ms, n).status \in STRING
         THEN Raise(ms, "TypeError")
         ELSE Raise(SetItem(ms, n, [Lookup(ms, n) EXCEPT !.status = [status |-> "DELETED"]]),
                    "AttributeError")

\* -------------------------------------------------------------- pagination
\* PAGINATION_MODEL["list_meshes"]
limit_default == 100
unique_attribute(mesh) == mesh.mesh_name

\* list_meshes without the first stored mesh.
list_meshes_values_SkipsFirst(ms) == [i \in 1..(Len(ms) - 1) |-> ms[i + 1]]

\* The body of list_meshes: every stored mesh, in the dict's order.
list_meshes_values(ms) == [i \in 1..Len(ms) |-> ms[i]]

\* The paginate decorator: the limit is the caller's or the default and must
\* be positive; the token names the unique attribute of the last item of the
\* previous page and must still name an item; the page is the next `limit`
\* items and the next token is absent when no item is left after the page.
paginate(results, limit, next_token) ==
    LET lim == IF IsNone(limit) THEN limit_default ELSE Val(limit)
        known == {i \in 1..Len(results) : unique_attribute(results[i]) = Val(next_token)}
        start == IF IsNone(next_token) THEN 0 ELSE CHOOSE i \in known : TRUE
        stop == IF start + lim < Len(results) THEN start + lim ELSE Len(results)
        page == SubSeq(results, start + 1, stop)
    IN  IF lim <= 0
        THEN [outcome |-> "ValidationError", ret |-> None]
        ELSE IF ~IsNone(next_token) /\ known = {}
        THEN [outcome |-> "InvalidToken", ret |-> None]
        ELSE [outcome |-> "ok",
              ret |-> Some([page |-> page,
                            next_token |-> IF stop < Len(results)
                                           THEN Some(unique_attribute(results[stop]))
                                           ELSE None])]

\* list_meshes as the backend exposes it, under the decorator.
list_meshes(ms, limit, next_token) ==
    paginate(list_meshes_values(ms), limit, next_token)

\* ------------------------------------------------------------------ actions
NoCall == [op |-> "none", name |-> None, spec |-> None, tags |-> None,
           limit |-> None, token |-> None]

IdleWalk == [state |-> "idle", limit |-> None, token |-> None, items |-> <<>>,
             calls |-> 0, clean |-> TRUE]

\* A walk is no longer over an unmodified store once the store changes
\* under it.
Touched(ms) ==
    IF walk.state # "idle" /\ ms # meshes
    THEN [walk EXCEPT !.clean = FALSE]
    ELSE walk

Init ==
    /\ meshes = <<>>
    /\ clock = 0
    /\ uuids = 0
    /\ call = NoCall
    /\ outcome = "none"
    /\ ret = None
    /\ kwargs = None
    /\ walk = IdleWalk

\* datetime.now() moves on between calls.
Tick ==
    /\ clock < MaxClock
    /\ clock' = clock + 1
    /\ UNCHANGED <<meshes, uuids, call, outcome, ret, kwargs, walk>>

\* A call of AppMeshBackend.create_mesh with the members of a request body,
\* as AppMeshResponse.create_mesh passes them on.
CreateMesh(n, spec, tags, maxCreates) ==
    /\ uuids < maxCreates
    /\ LET r == create_mesh(meshes, n, spec, tags, clock, uuids + 1)
       IN  /\ meshes' = r.meshes
           /\ outcome' = r.outcome
           /\ ret' = r.ret
           /\ uuids' = IF r.outcome = "ok" THEN uuids + 1 ELSE uuids
           /\ walk' = Touched(r.meshes)
    /\ call' = [NoCall EXCEPT !.op = "create_mesh", !.name = Some(n),
                              !.spec = spec, !.tags = tags]
    /\ UNCHANGED <<clock, kwargs>>

\* A call of AppMeshBackend.update_mesh, as AppMeshResponse.update_mesh makes it.
UpdateMesh(n, spec) ==
    /\ (Has(meshes, n) /\ Truthy(spec)) => Lookup(meshes, n).metadata.version < MaxVersion
    /\ LET r == update_mesh(meshes, n, spec, clock)
       IN  /\ meshes' = r.meshes
           /\ outcome' = r.outcome
           /\ ret' = r.ret
           /\ walk' = Touched(r.meshes)
    /\ call' = [NoCall EXCEPT !.op = "update_mesh", !.name = Some(n), !.spec = spec]
    /\ UNCHANGED <<clock, uuids, kwargs>>

\* A call of AppMeshBackend.describe_mesh.
DescribeMesh(n) ==
    /\ LET r == describe_mesh(meshes, n)
       IN  /\ meshes' = r.meshes
           /\ outcome' = r.outcome
           /\ ret' = r.ret
           /\ walk' = Touched(r.meshes)
    /\ call' = [NoCall EXCEPT !.op = "describe_mesh", !.name = Some(n)]
    /\ UNCHANGED <<clock, uuids, kwargs>>

\* A call of AppMeshBackend.delete_mesh.
DeleteMesh(n) ==
    /\ LET r == delete_mesh(meshes, n)
       IN  /\ meshes' = r.meshes
           /\ outcome' = r.outcome
           /\ ret' = r.ret
           /\ walk' = Touched(r.meshes)
    /\ call' = [NoCall EXCEPT !.op = "delete_mesh", !.name = Some(n)]
    /\ UNCHANGED <<clock, uuids, kwargs>>

\* A call of AppMeshBackend.list_meshes.
ListMeshes(limit, token) ==
    /\ LET r == list_meshes(meshes, limit, token)
       IN  /\ outcome' = r.outcome
           /\ ret' = r.ret
    /\ call' = [NoCall EXCEPT !.op = "list_meshes", !.limit = limit, !.token = token]
    /\ UNCHANGED <<meshes, clock, uuids, kwargs, walk>>

\* The lifecycle of the meshes of one backend.
Next ==
    \/ Tick
    \/ \E n \in Names, spec \in LifecycleSpecArgs : CreateMesh(n, spec, SomeTags, MaxCreates)
    \/ \E n \in Names, spec \in LifecycleSpecArgs : UpdateMesh(n, spec)
    \/ \E n \in Names : DescribeMesh(n)
    \/ \E n \in Names : DeleteMesh(n)
    \/ \E limit \in {None, Some(0)}, token \in {None, Some("m1")} : ListMeshes(limit, token)

Spec == Init /\ [][Next]_vars

\* ------------------------------------------------------------- a list walk
\* One list_meshes call of a client that concatenates the pages and follows
\* next_token until it is absent.
WalkCall(limit, token) ==
    /\ LET r == list_meshes(meshes, limit, token)
       IN  /\ outcome' = r.outcome
           /\ ret' = r.ret
           /\ walk' = IF r.outcome = "ok"
                      THEN [walk EXCEPT
                               !.state = IF IsNone(Val(r.ret).next_token)
                                         THEN "done" ELSE "walking",
                               !.limit = limit,
                               !.token = Val(r.ret).next_token,
                               !.items = @ \o Val(r.ret).page,
                               !.calls = @ + 1]
                      ELSE [walk EXCEPT !.state = "failed", !.calls = @ + 1]
    /\ call' = [NoCall EXCEPT !.op = "list_meshes", !.limit = limit, !.token = token]
    /\ UNCHANGED <<meshes, clock, uuids, kwargs>>

WalkStart(limit) ==
    /\ walk.state = "idle"
    /\ WalkCall(limit, None)

WalkNext ==
    /\ walk.state = "walking"
    /\ WalkCall(walk.limit, walk.token)

WalkLimits == {None} \cup {Some(l) : l \in 1..MaxLimit}

NextList ==
    \/ \E n \in ListNames : CreateMesh(n, Some(EmptySpec), SomeTags, MaxListCreates)
    \/ \E limit \in WalkLimits : WalkStart(limit)
    \/ WalkNext

SpecList == Init /\ [][NextList]_vars

\* ------------------------------------------------- Transfer translation
\* The request bodies the translation is applied to.  Every wire field the
\* handlers read is a field of the record; the sets below say which values
\* each is drawn from.
EndpointDetailsArgs ==
    {None} \cup
    {Some([AddressAllocationIds |-> None, SubnetIds |-> s, VpcEndpointId |-> None,
           VpcId |-> v, SecurityGroupIds |-> None]) :
        s \in {None, Some(<<>>), Some(<<"subnet-1">>)}, v \in {None, Some("vpc-1")}}

IdentityProviderDetailsArgs ==
    {None} \cup
    {Some([Url |-> u, InvocationRole |-> None, DirectoryId |-> None,
           Function |-> None, SftpAuthenticationMethods |-> None]) :
        u \in {None, Some("https://idp")}}

ProtocolDetailsArgs ==
    {None} \cup
    {Some([PassiveIp |-> ip, TlsSessionResumptionMode |-> None,
           SetStatOption |-> None, As2Transports |-> None]) :
        ip \in {None, Some("0.0.0.0")}}

S3StorageOptionsArgs ==
    {None} \cup
    {Some([DirectoryListingOptimization |-> o]) : o \in {None, Some("ENABLED")}}

WorkflowArgs == {[WorkflowId |-> Some("w-1"), ExecutionRole |-> None]}
WorkflowListArgs == {None, Some(<<>>)} \cup {Some(<<w>>) : w \in WorkflowArgs}
WorkflowDetailsArgs ==
    {None} \cup
    {Some([OnUpload |-> u, OnPartialUpload |-> p]) :
        u \in WorkflowListArgs, p \in WorkflowListArgs}

\* A request that supplies none of the optional blocks, and the requests
\* that supply one of them.
BareServerParams ==
    [Certificate |-> None, Domain |-> Some("S3"), EndpointDetails |-> None,
     EndpointType |-> None, HostKey |-> None, IdentityProviderDetails |-> None,
     IdentityProviderType |-> None, LoggingRole |-> None,
     PostAuthenticationLoginBanner |-> None, PreAuthenticationLoginBanner |-> None,
     Protocols |-> Some(<<"SFTP">>), ProtocolDetails |-> None,
     SecurityPolicyName |-> None, StructuredLogDestinations |-> None,
     S3StorageOptions |-> None, Tags |-> None, WorkflowDetails |-> None]

CreateServerParams ==
    {[BareServerParams EXCEPT !.EndpointDetails = x] : x \in EndpointDetailsArgs}
    \cup {[BareServerParams EXCEPT !.IdentityProviderDetails = x] :
             x \in IdentityProviderDetailsArgs}
    \cup {[BareServerParams EXCEPT !.ProtocolDetails = x] : x \in ProtocolDetailsArgs}
    \cup {[BareServerParams EXCEPT !.S3StorageOptions = x] : x \in S3StorageOptionsArgs}
    \cup {[BareServerParams EXCEPT !.WorkflowDetails = x, !.Tags = t] :
             x \in WorkflowDetailsArgs, t \in {None, Some(<<>>)}}

HomeDirectoryMappingArgs ==
    {None, Some(<<>>),
     Some(<<[Entry |-> Some("/"), Target |-> Some("/bucket"), Type |-> None]>>)}

PosixProfileArgs ==
    {None} \cup
    {Some([Gid |-> Some(1), Uid |-> Some(1), SecondaryGids |-> g]) :
        g \in {None, Some(<<2>>)}}

CreateUserParams ==
    [HomeDirectory : {Some("/home")}, HomeDirectoryType : {None},
     HomeDirectoryMappings : HomeDirectoryMappingArgs, Policy : {None},
     PosixProfile : PosixProfileArgs, Role : {Some("role")},
     ServerId : {Some("s-1")}, SshPublicKeyBody : {None}, Tags : {None, Some(<<>>)},
     UserName : {Some("u")}]

\* TransferResponse.create_server: the blocks it renames key by key.
endpoint_details(o) ==
    IF IsNone(o) THEN None
    ELSE Some([address_allocation_ids |-> DictGet(Val(o), "AddressAllocationIds"),
               subnet_ids |-> DictGet(Val(o), "SubnetIds"),
               vpc_endpoint_id |-> DictGet(Val(o), "VpcEndpointId"),
               vpc_id |-> DictGet(Val(o), "VpcId"),
               security_group_ids |-> DictGet(Val(o), "SecurityGroupIds")])

identity_provider_details(o) ==
    IF IsNone(o) THEN None
    ELSE Some([url |-> DictGet(Val(o), "Url"),
               invocation_role |-> DictGet(Val(o), "InvocationRole"),
               directory_id |-> DictGet(Val(o), "DirectoryId"),
               function |-> DictGet(Val(o), "Function"),
               sftp_authentication_methods |->
                   DictGet(Val(o), "SftpAuthenticationMethods")])

protocol_details(o) ==
    IF IsNone(o) THEN None
    ELSE Some([passive_ip |-> DictGet(Val(o), "PassiveIp"),
               tls_session_resumption_mode |->
                   DictGet(Val(o), "TlsSessionResumptionMode"),
               set_stat_option |-> DictGet(Val(o), "SetStatOption"),
               as2_transports |-> DictGet(Val(o), "As2Transports")])

s3_storage_options(o) ==
    IF IsNone(o) THEN None
    ELSE Some([directory_listing_optimization |->
                   DictGet(Val(o), "DirectoryListingOptimization")])

\* (o or []) for an Optional[list] o.
OrEmptyList(o) == IF IsNone(o) THEN <<>> ELSE Val(o)

\* [{...} for workflow in (workflow_details.get(key) or [])]
workflows(o) ==
    LET ws == OrEmptyList(o)
    IN  [i \in 1..Len(ws) |->
            [workflow_id |-> DictGet(ws[i], "WorkflowId"),
             execution_role |-> DictGet(ws[i], "ExecutionRole")]]

\* workflow_details without the "or []": a list the request lacks stays None.
workflow_details_KeepsAbsent(o) ==
    IF IsNone(o) THEN None
    ELSE Some([on_upload |->
                   IF IsNone(DictGet(Val(o), "OnUpload")) THEN None
                   ELSE Some(workflows(DictGet(Val(o), "OnUpload"))),
               on_partial_upload |->
                   IF IsNone(DictGet(Val(o), "OnPartialUpload")) THEN None
                   ELSE Some(workflows(DictGet(Val(o), "OnPartialUpload")))])

workflow_details(o) ==
    IF IsNone(o) THEN None
    ELSE Some([on_upload |-> Some(workflows(DictGet(Val(o), "OnUpload"))),
               on_partial_upload |->
                   Some(workflows(DictGet(Val(o), "OnPartialUpload")))])

\* The keyword arguments create_server passes to the backend.
create_server_kwargs(params) ==
    [certificate |-> DictGet(params, "Certificate"),
     domain |-> DictGet(params, "Domain"),
     endpoint_details |-> endpoint_details(DictGet(params, "EndpointDetails")),
     endpoint_type |-> DictGet(params, "EndpointType"),
     host_key |-> DictGet(params, "HostKey"),
     identity_provider_details |->
         identity_provider_details(DictGet(params, "IdentityProviderDetails")),
     identity_provider_type |-> DictGet(params, "IdentityProviderType"),
     logging_role |-> DictGet(params, "LoggingRole"),
     post_authentication_login_banner |->
         DictGet(params, "PostAuthenticationLoginBanner"),
     pre_authentication_login_banner |->
         DictGet(params, "PreAuthenticationLoginBanner"),
     protocols |-> DictGet(params, "Protocols"),
     protocol_details |-> protocol_details(DictGet(params, "ProtocolDetails")),
     security_policy_name |-> DictGet(params, "SecurityPolicyName"),
     structured_log_destinations |-> DictGet(params, "StructuredLogDestinations"),
     s3_storage_options |-> s3_storage_options(DictGet(params, "S3StorageOptions")),
     tags |-> DictGet(params, "Tags"),
     workflow_details |-> workflow_details(DictGet(params, "WorkflowDetails"))]

\* TransferResponse.create_user: the mappings are renamed only when the list
\* is there and not empty, otherwise passed on as they came.
home_directory_mappings(o) ==
    IF ~IsNone(o) /\ Len(Val(o)) > 0
    THEN Some([i \in 1..Len(Val(o)) |->
                  [entry |-> DictGet(Val(o)[i], "Entry"),
                   target |-> DictGet(Val(o)[i], "Target"),
                   type |-> DictGet(Val(o)[i], "Type")]])
    ELSE o

posix_profile(o) ==
    IF IsNone(o) THEN None
    ELSE Some([gid |-> DictGet(Val(o), "Gid"),
               uid |-> DictGet(Val(o), "Uid"),
               secondary_gids |-> DictGet(Val(o), "SecondaryGids")])

\* The keyword arguments create_user passes to the backend.
create_user_kwargs(params) ==
    [home_directory |-> DictGet(params, "HomeDirectory"),
     home_directory_type |-> DictGet(params, "HomeDirectoryType"),
     home_directory_mappings |->
         home_directory_mappings(DictGet(params, "HomeDirectoryMappings")),
     policy |-> DictGet(params, "Policy"),
     posix_profile |-> posix_profile(DictGet(params, "PosixProfile")),
     role |-> DictGet(params, "Role"),
     server_id |-> DictGet(params, "ServerId"),
     ssh_public_key_body |-> DictGet(params, "SshPublicKeyBody"),
     tags |-> DictGet(params, "Tags"),
     user_name |-> DictGet(params, "UserName")]

\* TransferResponse.create_server, up to its call of the backend.
CreateServer(params) ==
    /\ call' = [op |-> "create_server", params |-> params]
    /\ kwargs' = Some(create_server_kwargs(params))
    /\ outcome' = "ok"
    /\ ret' = None
    /\ UNCHANGED <<meshes, clock, uuids, walk>>

\* TransferResponse.create_user, up to its call of the backend.
CreateUser(params) ==
    /\ call' = [op |-> "create_user", params |-> params]
    /\ kwargs' = Some(create_user_kwargs(params))
    /\ outcome' = "ok"
    /\ ret' = None
    /\ UNCHANGED <<meshes, clock, uuids, walk>>

\* The three creates whose requests are translated.
NextTranslate ==
    \/ \E spec \in SpecArgs, tags \in TagArgs : CreateMesh("m1", spec, tags, MaxCreates)
    \/ \E params \in CreateServerParams : CreateServer(params)
    \/ \E params \in CreateUserParams : CreateUser(params)

SpecTranslate == Init /\ [][NextTranslate]_vars

\* ------------------------------------------------------------------ claims
\* The name a call was made with, and the stored record of a name.
CalledName(c) == Val(c.name)
Version(ms, n) == Lookup(ms, n).metadata.version
LastUpdatedAt(ms, n) == Lookup(ms, n).metadata.last_updated_at
MeshOps == {"update_mesh", "describe_mesh", "delete_mesh"}

\* A step that is a call of `op`: every call leaves the clock alone, and the
\* clock's own step leaves `call` alone.
IsCall(op) == call'.op = op /\ clock' = clock

\* C1: a describe_mesh(n) that directly follows a delete_mesh(n) fails with
\* MeshNotFoundError: after the delete, n is not a key of the store.
C1_DescribeAfterDeleteNotFound ==
    [][(call.op = "delete_mesh" /\ IsCall("describe_mesh") /\ call'.name = call.name)
          => outcome' = "MeshNotFoundError" /\ ~Has(meshes', CalledName(call'))]_vars

\* C2 as stated: every successful update_mesh, whatever its spec, raises the
\* mesh's version by exactly 1 and leaves last_updated_at no earlier.
C2_EveryUpdateBumpsVersion ==
    [][(IsCall("update_mesh") /\ outcome' = "ok")
          => LET n == CalledName(call')
             IN  /\ Version(meshes', n) = Version(meshes, n) + 1
                 /\ LastUpdatedAt(meshes', n) >= LastUpdatedAt(meshes, n)]_vars

\* C2 as amended: a successful update_mesh with a non-empty spec raises the
\* version by exactly 1 and sets last_updated_at to the time of the call, no
\* earlier than before; with an absent or empty spec it succeeds and leaves
\* version and last_updated_at as they were.
C2_UpdateBumpsVersionIfSpec ==
    [][(IsCall("update_mesh") /\ outcome' = "ok")
          => LET n == CalledName(call')
             IN  IF Truthy(call'.spec)
                 THEN /\ Version(meshes', n) = Version(meshes, n) + 1
                      /\ LastUpdatedAt(meshes', n) = clock
                      /\ LastUpdatedAt(meshes', n) >= LastUpdatedAt(meshes, n)
                 ELSE /\ Version(meshes', n) = Version(meshes, n)
                      /\ LastUpdatedAt(meshes', n) = LastUpdatedAt(meshes, n)]_vars

\* A mesh updated once, later than it was created, and then updated again
\* with an absent or empty spec.
C2_Witness ==
    /\ call.op = "update_mesh"
    /\ outcome = "ok"
    /\ ~Truthy(call.spec)
    /\ Version(meshes, CalledName(call)) = 2
    /\ LastUpdatedAt(meshes, CalledName(call)) >
           Lookup(meshes, CalledName(call)).metadata.created_at

\* C3: a describe_mesh(n) that directly follows a successful create_mesh(n)
\* returns a record with version 1, status ACTIVE and created_at equal to
\* last_updated_at.
C3_DescribeAfterCreate ==
    [][(call.op = "create_mesh" /\ outcome = "ok"
            /\ IsCall("describe_mesh") /\ call'.name = call.name)
          => /\ outcome' = "ok"
             /\ Val(ret').mesh_name = CalledName(call)
             /\ Val(ret').metadata.version = 1
             /\ Val(ret').status = "ACTIVE"
             /\ Val(ret').metadata.created_at = Val(ret').metadata.last_updated_at]_vars

\* describe_mesh has returned the only mesh ever created, created after the
\* clock moved on.
C3_Witness ==
    /\ call.op = "describe_mesh"
    /\ outcome = "ok"
    /\ uuids = 1
    /\ Val(ret).metadata.version = 1
    /\ Val(ret).status = "ACTIVE"
    /\ Val(ret).metadata.created_at = 1
    /\ Val(ret).metadata.last_updated_at = 1

\* C4: create_mesh (with a spec) under a name that is already a key fails
\* with AlreadyExists and leaves the store, the existing record included,
\* as it was.
C4_CreateExistingFails ==
    [][(IsCall("create_mesh") /\ ~IsNone(call'.spec) /\ Has(meshes, CalledName(call')))
          => outcome' = "AlreadyExists" /\ meshes' = meshes]_vars

\* C5: every stored record has status ACTIVE, and a delete_mesh of a stored
\* name returns the record with status DELETED.
C5_StatusLifecycle ==
    /\ \A i \in 1..Len(meshes) : meshes[i].status = "ACTIVE"
    /\ (call.op = "delete_mesh" /\ outcome # "MeshNotFoundError")
          => outcome = "ok" /\ Val(ret).status = "DELETED"

\* C6: describe_mesh, update_mesh and delete_mesh of a name that is not a
\* key fail with MeshNotFoundError and leave the store unchanged, and of
\* any name end in no other error.
C6_OnlyNotFound ==
    [][\A op \in MeshOps :
          IsCall(op)
             => /\ ~Has(meshes, CalledName(call'))
                    => outcome' = "MeshNotFoundError" /\ meshes' = meshes
                /\ outcome' \in {"ok", "MeshNotFoundError"}]_vars

\* The stored spec fields of a name.
EgressFilter(ms, n) == Lookup(ms, n).spec.egress_filter
ServiceDiscovery(ms, n) == Lookup(ms, n).spec.service_discovery
SuppliesOnly(spec, field, other) ==
    ~IsNone(spec) /\ ~IsNone(Val(spec)[field]) /\ IsNone(Val(spec)[other])

\* C7 as stated: an update_mesh whose spec supplies serviceDiscovery but not
\* egressFilter leaves the stored egress_filter as it was, and the reverse.
C7_UpdateKeepsUnsuppliedField ==
    [][(IsCall("update_mesh") /\ outcome' = "ok")
          => LET n == CalledName(call')
             IN  /\ SuppliesOnly(call'.spec, "serviceDiscovery", "egressFilter")
                       => EgressFilter(meshes', n) = EgressFilter(meshes, n)
                 /\ SuppliesOnly(call'.spec, "egressFilter", "serviceDiscovery")
                       => ServiceDiscovery(meshes', n) = ServiceDiscovery(meshes, n)]_vars

\* C7 as amended: an update_mesh with a non-empty spec replaces both stored
\* spec fields by what the request supplies, so a field the request does
\* not supply is stored as None afterwards (egress_filter None,
\* service_discovery.ip_preference None); an absent or empty spec leaves the
\* stored spec as it was.
C7_UpdateReplacesSpec ==
    [][(IsCall("update_mesh") /\ outcome' = "ok")
          => LET n == CalledName(call')
             IN  IF Truthy(call'.spec)
                 THEN /\ SuppliesOnly(call'.spec, "serviceDiscovery", "egressFilter")
                            => IsNone(EgressFilter(meshes', n))
                      /\ SuppliesOnly(call'.spec, "egressFilter", "serviceDiscovery")
                            => ServiceDiscovery(meshes', n) = Some([ip_preference |-> None])
                      /\ EgressFilter(meshes', n) = Val(call'.spec).egressFilter
                 ELSE Lookup(meshes', n).spec = Lookup(meshes, n).spec]_vars

\* An update that supplied serviceDiscovery alone has acted on a mesh that
\* was created with an egressFilter: its egress_filter is None now.
C7_Witness ==
    /\ call.op = "update_mesh"
    /\ outcome = "ok"
    /\ SuppliesOnly(call.spec, "serviceDiscovery", "egressFilter")
    /\ IsNone(EgressFilter(meshes, CalledName(call)))
    /\ ~IsNone(Val(ServiceDiscovery(meshes, CalledName(call))).ip_preference)
    /\ Version(meshes, CalledName(call)) = 2

\* C9: a call on name n leaves every other name as it was: in the store or
\* not, and with the same record (list_meshes, which names no mesh, leaves
\* them all).
C9_OtherRecordsUnchanged ==
    [][\A m \in Names :
          call'.name # Some(m)
             => /\ Has(meshes', m) <=> Has(meshes, m)
                /\ Has(meshes, m) => Lookup(meshes', m) = Lookup(meshes, m)]_vars

\* Two meshes are stored and an update has changed the one it named.
C9_Witness ==
    /\ call.op = "update_mesh"
    /\ outcome = "ok"
    /\ Len(meshes) = 2
    /\ Version(meshes, CalledName(call)) = 2
    /\ \E m \in Names : m # CalledName(call) /\ Has(meshes, m) /\ Version(meshes, m) = 1

\* Every mesh ever listed by the walk, by name, is listed once.
NoDuplicates(items) ==
    \A i, j \in 1..Len(items) : items[i].mesh_name = items[j].mesh_name => i = j

IsProperPrefix(items, ms) ==
    Len(items) < Len(ms) /\ \A i \in 1..Len(items) : items[i] = ms[i]

ServerFields ==
    {<<"Certificate", "certificate">>, <<"Domain", "domain">>,
     <<"EndpointDetails", "endpoint_details">>, <<"EndpointType", "endpoint_type">>,
     <<"HostKey", "host_key">>,
     <<"IdentityProviderDetails", "identity_provider_details">>,
     <<"IdentityProviderType", "identity_provider_type">>,
     <<"LoggingRole", "logging_role">>,
     <<"PostAuthenticationLoginBanner", "post_authentication_login_banner">>,
     <<"PreAuthenticationLoginBanner", "pre_authentication_login_banner">>,
     <<"Protocols", "protocols">>, <<"ProtocolDetails", "protocol_details">>,
     <<"SecurityPolicyName", "security_policy_name">>,
     <<"StructuredLogDestinations", "structured_log_destinations">>,
     <<"S3StorageOptions", "s3_storage_options">>, <<"Tags", "tags">>,
     <<"WorkflowDetails", "workflow_details">>}
EndpointFields ==
    {<<"AddressAllocationIds", "address_allocation_ids">>, <<"SubnetIds", "subnet_ids">>,
     <<"VpcEndpointId", "vpc_endpoint_id">>, <<"VpcId", "vpc_id">>,
     <<"SecurityGroupIds", "security_group_ids">>}
IdentityProviderFields ==
    {<<"Url", "url">>, <<"InvocationRole", "invocation_role">>,
     <<"DirectoryId", "directory_id">>, <<"Function", "function">>,
     <<"SftpAuthenticationMethods", "sftp_authentication_methods">>}
ProtocolFields ==
    {<<"PassiveIp", "passive_ip">>,
     <<"TlsSessionResumptionMode", "tls_session_resumption_mode">>,
     <<"SetStatOption", "set_stat_option">>, <<"As2Transports", "as2_transports">>}
S3StorageFields == {<<"DirectoryListingOptimization", "directory_listing_optimization">>}
WorkflowDetailsFields ==
    {<<"OnUpload", "on_upload">>, <<"OnPartialUpload", "on_partial_upload">>}
UserFields ==
    {<<"HomeDirectory", "home_directory">>, <<"HomeDirectoryType", "home_directory_type">>,
     <<"HomeDirectoryMappings", "home_directory_mappings">>, <<"Policy", "policy">>,
     <<"PosixProfile", "posix_profile">>, <<"Role", "role">>, <<"ServerId", "server_id">>,
     <<"SshPublicKeyBody", "ssh_public_key_body">>, <<"Tags", "tags">>,
     <<"UserName", "user_name">>}
PosixProfileFields ==
    {<<"Gid", "gid">>, <<"Uid", "uid">>, <<"SecondaryGids", "secondary_gids">>}

\* Every key of `fields` that the wire dict lacks is None in the internal
\* dict.
AbsentStaysAbsent(wire, internal, fields) ==
    \A f \in fields : IsNone(wire[f[1]]) => IsNone(internal[f[2]])

\* The same of a block the request may or may not supply.
BlockAbsentStaysAbsent(wire, internal, fields) ==
    ~IsNone(wire) => ~IsNone(internal) /\ AbsentStaysAbsent(Val(wire), Val(internal), fields)

\* What holds of all optional fields but the three the code fills in.
AbsentStaysAbsentElsewhere ==
    /\ call.op = "create_server" =>
          LET p == call.params
              k == Val(kwargs)
          IN  /\ AbsentStaysAbsent(p, k, ServerFields)
              /\ BlockAbsentStaysAbsent(p.EndpointDetails, k.endpoint_details,
                                        EndpointFields)
              /\ BlockAbsentStaysAbsent(p.IdentityProviderDetails,
                                        k.identity_provider_details,
                                        IdentityProviderFields)
              /\ BlockAbsentStaysAbsent(p.ProtocolDetails, k.protocol_details,
                                        ProtocolFields)
              /\ BlockAbsentStaysAbsent(p.S3StorageOptions, k.s3_storage_options,
                                        S3StorageFields)
              /\ ~IsNone(p.WorkflowDetails) => ~IsNone(k.workflow_details)
    /\ call.op = "create_user" =>
          LET p == call.params
              k == Val(kwargs)
          IN  /\ AbsentStaysAbsent(p, k, UserFields)
              /\ BlockAbsentStaysAbsent(p.PosixProfile, k.posix_profile,
                                        PosixProfileFields)
              /\ p.HomeDirectoryMappings = Some(<<>>)
                    => k.home_directory_mappings = Some(<<>>)
    /\ (call.op = "create_mesh" /\ outcome = "ok") =>
          LET p == Val(call.spec)
              m == Lookup(meshes, CalledName(call))
          IN  /\ IsNone(call.tags) => IsNone(m.tags)
              /\ IsNone(p.egressFilter) => IsNone(m.spec.egress_filter)
              /\ ~IsNone(p.serviceDiscovery)
                    => /\ ~IsNone(m.spec.service_discovery)
                       /\ IsNone(Val(p.serviceDiscovery).ipPreference)
                             => IsNone(Val(m.spec.service_discovery).ip_preference)

\* C10 as stated: no translation fills in an optional field the request
\* lacks: the field is None in what the handler passes on, the nested
\* WorkflowDetails.OnUpload and OnPartialUpload and create_mesh's
\* spec.serviceDiscovery included.
C10_AbsentNeverDefaulted ==
    /\ AbsentStaysAbsentElsewhere
    /\ call.op = "create_server" =>
          BlockAbsentStaysAbsent(call.params.WorkflowDetails,
                                 Val(kwargs).workflow_details, WorkflowDetailsFields)
    /\ (call.op = "create_mesh" /\ outcome = "ok") =>
          (IsNone(Val(call.spec).serviceDiscovery)
              => IsNone(Lookup(meshes, CalledName(call)).spec.service_discovery))

\* C10 as amended: an absent optional field is passed on as None, except
\* that a supplied WorkflowDetails has its absent OnUpload and
\* OnPartialUpload passed on as empty lists, as if supplied empty, and that
\* create_mesh (given a spec) stores service_discovery as the filled-in
\* {"ip_preference": None} when spec.serviceDiscovery is absent, as if
\* supplied empty.
C10_AbsentDefaultedOnlyInThree ==
    /\ AbsentStaysAbsentElsewhere
    /\ (call.op = "create_server" /\ ~IsNone(call.params.WorkflowDetails)) =>
          \A f \in WorkflowDetailsFields :
              LET w == Val(call.params.WorkflowDetails)[f[1]]
              IN  (IsNone(w) \/ w = Some(<<>>))
                     => Val(Val(kwargs).workflow_details)[f[2]] = Some(<<>>)
    /\ (call.op = "create_mesh" /\ outcome = "ok") =>
          LET sd == Val(call.spec).serviceDiscovery
          IN  (IsNone(sd) \/ sd = Some(EmptyServiceDiscovery))
                 => Lookup(meshes, CalledName(call)).spec.service_discovery
                       = Some([ip_preference |-> None])

\* create_server has translated a WorkflowDetails that supplies
\* OnPartialUpload and lacks OnUpload.
C10_Witness ==
    /\ call.op = "create_server"
    /\ ~IsNone(call.params.WorkflowDetails)
    /\ IsNone(Val(call.params.WorkflowDetails).OnUpload)
    /\ ~IsNone(Val(call.params.WorkflowDetails).OnPartialUpload)
    /\ Val(Val(kwargs).workflow_details).on_upload = Some(<<>>)
    /\ Len(Val(Val(Val(kwargs).workflow_details).on_partial_upload)) = 1
====
